---- MODULE Spec2Model ----
(***************************************************************************)
(* Chunk-embed-retrieve pipeline of the document QnA service.              *)
(*                                                                         *)
(* Strings are sequences of tokens; the token 0 is the white space that    *)
(* separates two sentences and every other token stands for one sentence's *)
(* characters.  Three drivers share the state and the TextProcessor steps: *)
(*   Spec    the FastAPI service of main.py (uploads, detached ingestion   *)
(*           tasks, get_db's release, the question endpoints);             *)
(*   SpecUploads  the same service without the question endpoints;         *)
(*   SpecTP  a script that owns one session and one TextProcessor and      *)
(*           calls chunk_and_embed on it, as background_tasks_test.py.     *)
(* Fields marked "history" are not program state: they record where a row  *)
(* came from so that properties about batches can be stated.               *)
(***************************************************************************)
EXTENDS Integers, Sequences, FiniteSets, TLC

VARIABLES
    files,        \* table "files": sequence of File rows, file_id = index
    file_chunks,  \* table "file_chunks": committed rows, chunk_id = index
    sessions,     \* sessions[p]: the Session TextProcessor p holds (self.db)
    procs,        \* TextProcessor objects and the position of their call
    loads,        \* number of SentenceTransformer(...) constructions so far
    similar       \* what get_similar_chunks returned in the step just taken

vars == <<files, file_chunks, sessions, procs, loads, similar>>

\* ---------------------------------------------------------------- bounds
MaxUploads == 2
LongLen == 21
MaxRuns == 2
MaxLoads == 3
EmbDim == 2

\* ------------------------------------------------------- program constants
TopK == 10
DefaultChunkSize == 2
TestLen == 5

\* The uploaded texts hold at most MaxSentences sentences together.
MaxSentences == LongLen + TestLen

\* ------------------------------------------------------------- arithmetic
Min(a, b) == IF a < b THEN a ELSE b
Max(a, b) == IF a < b THEN b ELSE a

CeilDiv(n, d) == (n + d - 1) \div d

\* ---------------------------------------------------------------- strings
Space == <<0>>

RECURSIVE Join(_)
\* " ".join(parts)
Join(parts) ==
    IF parts = <<>> THEN <<>>
    ELSE IF Len(parts) = 1 THEN parts[1]
    ELSE parts[1] \o Space \o Join(Tail(parts))

RECURSIVE Flatten(_)
Flatten(ss) == IF ss = <<>> THEN <<>> ELSE Head(ss) \o Flatten(Tail(ss))

\* The text whose sentences are <<1>>, <<2>>, ..., <<n>>.
MkText(n) == Join([i \in 1..n |-> <<i>>])

RECURSIVE sent_tokenize(_)
\* The sentence strings of text, in order: the maximal runs free of white space.
sent_tokenize(text) ==
    IF text = <<>> THEN <<>>
    ELSE IF Head(text) = Space[1] THEN sent_tokenize(Tail(text))
    ELSE LET seps == {i \in 1..Len(text) : text[i] = Space[1]}
             stop == IF seps = {} THEN Len(text) + 1
                     ELSE CHOOSE i \in seps : \A j \in seps : i <= j
         IN  <<SubSeq(text, 1, stop - 1)>>
                 \o sent_tokenize(SubSeq(text, stop, Len(text)))

\* --------------------------------------------------------- Python builtins
\* range(start, stop, step) for step # 0, as a sequence.
PyRange(start, stop, step) ==
    LET n == IF step > 0 /\ start < stop THEN CeilDiv(stop - start, step)
             ELSE IF step < 0 /\ start > stop THEN CeilDiv(start - stop, -step)
             ELSE 0
    IN  [k \in 1..n |-> start + (k - 1) * step]

\* An index of s[i:j] brought into 0..len(s).
SliceIndex(s, i) ==
    IF i < 0 THEN Max(0, i + Len(s)) ELSE Min(i, Len(s))

PySliceOverlap(s, i, j) == SubSeq(s, SliceIndex(s, i) + 1, SliceIndex(s, j + 1))

\* s[i:j]
PySlice(s, i, j) == SubSeq(s, SliceIndex(s, i) + 1, SliceIndex(s, j))

\* ------------------------------------------------------------- embeddings
RECURSIVE SumAt(_, _, _)
\* Sum of the tokens of text at the positions p >= from with p = d (mod EmbDim).
SumAt(text, d, from) ==
    IF from > Len(text) THEN 0
    ELSE (IF (from - 1) % EmbDim = d - 1 THEN text[from] ELSE 0)
             + SumAt(text, d, from + 1)

\* model.encode(text).tolist(): a fixed function of the text.
encode(text) == [d \in 1..EmbDim |-> SumAt(text, d, 1)]

RECURSIVE SqSum(_, _, _)
SqSum(u, v, d) ==
    IF d > Len(u) THEN 0
    ELSE (u[d] - v[d]) * (u[d] - v[d]) + SqSum(u, v, d + 1)

\* embedding_vector.l2_distance(q), squared (same order as the distance).
l2_distance(u, v) == SqSum(u, v, 1)

\* ----------------------------------------------------------------- inputs
FileNames == {<<"sample", "txt">>, <<"setup", "exe">>}
allowed_extensions == {"txt", "pdf"}
file_extension(filename) == filename[Len(filename)]

Texts == {MkText(TestLen), MkText(LongLen)}
TPTexts == {MkText(n) : n \in 0..TestLen}
ChunkSizes == (-1)..(DefaultChunkSize + 1)
Questions == {<<TestLen>>, <<LongLen>>}

\* No call of get_similar_chunks in the step just taken.
NoQuery == [document_id |-> 0, question |-> <<>>, rows |-> <<>>]
Ended == {"done", "failed"}

ProcIds == 1..Len(procs)
FileIds == 1..Len(files)
ChunkIds == 1..Len(file_chunks)

\* ------------------------------------------------------------------- Init
Init ==
    /\ files = <<>>
    /\ file_chunks = <<>>
    /\ sessions = <<>>
    /\ procs = <<>>
    /\ loads = 0
    /\ similar = NoQuery

\* db = SessionLocal(), acquired by owner.
NewSession(owner) ==
    [state |-> "open", new |-> <<>>, owner |-> owner,
     users |-> {owner}, usedClosed |-> FALSE]

\* A use of session s (add, commit) by the operation who.
Use(s, who) ==
    [s EXCEPT !.users = @ \cup {who},
              !.usedClosed = @ \/ s.state = "closed"]

\* TextProcessor(db, file_id, chunk_size), not yet called.
NewProcessor(db, file_id, chunk_size) ==
    [db |-> db, file_id |-> file_id, chunk_size |-> chunk_size,
     pc |-> "idle", text |-> <<>>, sentences |-> <<>>, windows |-> <<>>,
     chunks |-> <<>>, i |-> 0, err |-> "",
     caller |-> <<"none", 0>>,   \* history: the operation running the call
     doc |-> 0,                  \* history: id of the File row created for it
     row |-> <<>>,               \* history: that File row as it was committed
     run |-> 0,                  \* history: number of calls started
     sizes |-> <<>>,             \* history: number of chunks of each call
     okTexts |-> <<>>,           \* history: texts of the calls that returned
     nFailed |-> 0]              \* history: number of calls that raised

\* tp.chunk_and_embed(text) about to run, on behalf of caller.
Call(tp, text, caller) ==
    [tp EXCEPT !.pc = "scheduled", !.text = text, !.sentences = <<>>,
               !.windows = <<>>, !.chunks = <<>>, !.i = 0, !.err = "",
               !.caller = caller, !.run = @ + 1]

\* ------------------------------------------- TextProcessor.chunk_and_embed
\* The windows sentences[i:i + chunk_size] for i in range(0, len, chunk_size).
BuildWindows(sentences, chunk_size) ==
    LET starts == PyRange(0, Len(sentences), chunk_size)
    IN  [k \in 1..Len(starts) |->
            PySlice(sentences, starts[k], starts[k] + chunk_size)]

BuildChunks(sentences, chunk_size) ==
    LET windows == BuildWindows(sentences, chunk_size)
    IN  [k \in 1..Len(windows) |-> Join(windows[k])]

\* Lines 29-37: tokenize and chunk; range() raises ValueError for a step of 0.
Start(p) ==
    /\ p \in ProcIds
    /\ procs[p].pc = "scheduled"
    /\ LET tp == procs[p]
           sentences == sent_tokenize(tp.text)
       IN  IF tp.chunk_size = 0
           THEN procs' = [procs EXCEPT ![p] =
                    [tp EXCEPT !.sentences = sentences, !.pc = "failed",
                               !.err = "ValueError", !.nFailed = @ + 1,
                               !.sizes = Append(@, 0)]]
           ELSE procs' = [procs EXCEPT ![p] =
                    [tp EXCEPT !.sentences = sentences,
                               !.windows = BuildWindows(sentences, tp.chunk_size),
                               !.chunks = BuildChunks(sentences, tp.chunk_size),
                               !.pc = "loop",
                               !.sizes = Append(@,
                                   Len(BuildChunks(sentences, tp.chunk_size)))]]
    /\ similar' = NoQuery
    /\ UNCHANGED <<files, file_chunks, sessions, loads>>

FileChunkLatest(p, chunk) ==
    [file_id |-> Len(files), chunk_text |-> chunk,
     embedding_vector |-> encode(chunk),
     batch |-> <<p, procs[p].run>>]

\* FileChunk(file_id=self.file_id, chunk_text=chunk, embedding_vector=...);
\* batch is history: the processor and the call that cut the chunk.
FileChunk(p, chunk) ==
    [file_id |-> procs[p].file_id, chunk_text |-> chunk,
     embedding_vector |-> encode(chunk),
     batch |-> <<p, procs[p].run>>]

\* Lines 39-50, one pass of the loop: encode the chunk and db.add the row.
EmbedAdd(p) ==
    /\ p \in ProcIds
    /\ procs[p].pc = "loop"
    /\ procs[p].i < Len(procs[p].chunks)
    /\ LET tp == procs[p]
           s == tp.db
       IN  /\ sessions' = [sessions EXCEPT ![s] =
                  [Use(sessions[s], tp.caller) EXCEPT
                      !.new = Append(@, FileChunk(p, tp.chunks[tp.i + 1]))]]
           /\ procs' = [procs EXCEPT ![p].i = @ + 1]
    /\ similar' = NoQuery
    /\ UNCHANGED <<files, file_chunks, loads>>

EncodeFailRollsBackFile(p) ==
    /\ p \in ProcIds
    /\ procs[p].pc = "loop"
    /\ procs[p].i < Len(procs[p].chunks)
    /\ procs' = [procs EXCEPT ![p].pc = "failed",
                              ![p].err = "EmbeddingUnavailable",
                              ![p].nFailed = @ + 1]
    /\ files' = SubSeq(files, 1, Len(files) - 1)
    /\ similar' = NoQuery
    /\ UNCHANGED <<file_chunks, sessions, loads>>

\* Line 41 raises: the call ends there; no rollback, the rows already added
\* stay pending in the session.
EncodeFail(p) ==
    /\ p \in ProcIds
    /\ procs[p].pc = "loop"
    /\ procs[p].i < Len(procs[p].chunks)
    /\ procs' = [procs EXCEPT ![p].pc = "failed",
                              ![p].err = "EmbeddingUnavailable",
                              ![p].nFailed = @ + 1]
    /\ similar' = NoQuery
    /\ UNCHANGED <<files, file_chunks, sessions, loads>>

\* The rows a commit of session s inserts, with their chunk_id assigned.
Inserted(s) ==
    [k \in 1..Len(sessions[s].new) |->
        [chunk_id |-> Len(file_chunks) + k,
         file_id |-> sessions[s].new[k].file_id,
         chunk_text |-> sessions[s].new[k].chunk_text,
         embedding_vector |-> sessions[s].new[k].embedding_vector,
         batch |-> sessions[s].new[k].batch]]

\* ForeignKey("files.file_id"): every pending row points to a File row.
ForeignKeysHold(s) ==
    \A k \in 1..Len(sessions[s].new) : sessions[s].new[k].file_id \in FileIds

CommitReplaces(p) ==
    /\ p \in ProcIds
    /\ procs[p].pc = "loop"
    /\ procs[p].i = Len(procs[p].chunks)
    /\ ForeignKeysHold(procs[p].db)
    /\ LET tp == procs[p]
           s == tp.db
           kept == SelectSeq(file_chunks, LAMBDA c : c.file_id # tp.file_id)
       IN  /\ file_chunks' = kept \o
                  [k \in 1..Len(sessions[s].new) |->
                      [Inserted(s)[k] EXCEPT !.chunk_id = Len(kept) + k]]
           /\ sessions' = [sessions EXCEPT ![s] =
                  [Use(sessions[s], tp.caller) EXCEPT !.new = <<>>]]
           /\ procs' = [procs EXCEPT ![p].pc = "done",
                                     ![p].okTexts = Append(@, tp.text)]
    /\ similar' = NoQuery
    /\ UNCHANGED <<files, loads>>

\* Line 51, db.commit() succeeds: one transaction inserts every pending row
\* of the session, in the order they were added.
Commit(p) ==
    /\ p \in ProcIds
    /\ procs[p].pc = "loop"
    /\ procs[p].i = Len(procs[p].chunks)
    /\ ForeignKeysHold(procs[p].db)
    /\ LET tp == procs[p]
           s == tp.db
       IN  /\ file_chunks' = file_chunks \o Inserted(s)
           /\ sessions' = [sessions EXCEPT ![s] =
                  [Use(sessions[s], tp.caller) EXCEPT !.new = <<>>]]
           /\ procs' = [procs EXCEPT ![p].pc = "done",
                                     ![p].okTexts = Append(@, tp.text)]
    /\ similar' = NoQuery
    /\ UNCHANGED <<files, loads>>

\* Line 51, db.commit() raises (constraint violation, connectivity): the
\* transaction is rolled back and the pending rows are expunged.
CommitFail(p) ==
    /\ p \in ProcIds
    /\ procs[p].pc = "loop"
    /\ procs[p].i = Len(procs[p].chunks)
    /\ LET tp == procs[p]
           s == tp.db
       IN  /\ sessions' = [sessions EXCEPT ![s] =
                  [Use(sessions[s], tp.caller) EXCEPT !.new = <<>>]]
           /\ procs' = [procs EXCEPT ![p].pc = "failed",
                                     ![p].err = "PersistenceError",
                                     ![p].nFailed = @ + 1]
    /\ similar' = NoQuery
    /\ UNCHANGED <<files, file_chunks, loads>>

\* ------------------------------------------------------- main.py: uploads
RECURSIVE Stored(_)
\* Number of sentences of the File rows 1..n.
Stored(n) ==
    IF n = 0 THEN 0
    ELSE Len(sent_tokenize(files[n].file_content)) + Stored(n - 1)

\* The model's bounds on what is uploaded.
Fits(text) ==
    /\ Len(files) < MaxUploads
    /\ Stored(Len(files)) + Len(sent_tokenize(text)) <= MaxSentences

\* The File row upload_file commits (lines 77-80); file_id is the next key.
NewFile(filename, text) ==
    [file_id |-> Len(files) + 1, file_name |-> filename, file_content |-> text]

\* upload_file, lines 59-60: the extension is not allowed, HTTP 400.
UploadRejected(filename) ==
    /\ file_extension(filename) \notin allowed_extensions
    /\ similar' = NoQuery
    /\ UNCHANGED <<files, file_chunks, sessions, procs, loads>>

\* upload_file, lines 66-80 raise (saving, parsing, commit): HTTP 500, no row.
UploadError(filename) ==
    /\ file_extension(filename) \in allowed_extensions
    /\ similar' = NoQuery
    /\ UNCHANGED <<files, file_chunks, sessions, procs, loads>>

\* upload_file, line 83: the File row is committed and TextProcessor(...)
\* raises while loading the model: HTTP 500, the row stays, no task.
UploadModelError(filename, text) ==
    /\ file_extension(filename) \in allowed_extensions
    /\ Fits(text)
    /\ files' = Append(files, NewFile(filename, text))
    /\ similar' = NoQuery
    /\ UNCHANGED <<file_chunks, sessions, procs, loads>>

\* upload_file, lines 66-85: the File row is committed with the request's
\* session, then a TextProcessor holding that same session is constructed
\* (loading the model) and its chunk_and_embed is added as a background task.
UploadFile(filename, text) ==
    /\ file_extension(filename) \in allowed_extensions
    /\ Fits(text)
    /\ loads < MaxLoads
    /\ LET p == Len(procs) + 1
           new_file == NewFile(filename, text)
       IN  /\ files' = Append(files, new_file)
           /\ sessions' = Append(sessions, NewSession(<<"upload", p>>))
           /\ procs' = Append(procs,
                  Call([NewProcessor(p, new_file.file_id, DefaultChunkSize)
                            EXCEPT !.doc = new_file.file_id, !.row = new_file],
                       text, <<"ingest", p>>))
           /\ similar' = NoQuery
    /\ loads' = loads + 1
    /\ UNCHANGED file_chunks

\* get_db's finally of the upload request: db.close() expunges what is
\* pending.  It runs either before the background task starts or after the
\* task has ended, depending on the framework's version.
CloseSession(p) ==
    /\ p \in ProcIds
    /\ sessions[p].owner = <<"upload", p>>
    /\ sessions[p].state = "open"
    /\ procs[p].pc \in {"scheduled"} \cup Ended
    /\ sessions' = [sessions EXCEPT ![p].state = "closed", ![p].new = <<>>]
    /\ similar' = NoQuery
    /\ UNCHANGED <<files, file_chunks, procs, loads>>

\* What root() returns: the id and the name of every File row.
Listing ==
    [f \in FileIds |-> [file_id |-> files[f].file_id,
                        file_name |-> files[f].file_name]]

\* root(): reads the File rows; nothing is written.
ListFiles ==
    /\ Len(Listing) = Len(files)
    /\ similar' = NoQuery
    /\ UNCHANGED <<files, file_chunks, sessions, procs, loads>>

\* ----------------------------------------------------- main.py: retrieval
\* .where(FileChunk.file_id == file_id): the chunk_ids selected.
Where(file_id) == {c \in ChunkIds : file_chunks[c].file_id = file_id}


RECURSIVE Ascending(_, _)
\* Every sequence of the rows S in ascending dist; rows at the same distance
\* come in any order (the database promises none).
Ascending(S, dist) ==
    IF S = {} THEN {<<>>}
    ELSE LET least == CHOOSE c \in S : \A x \in S : dist[c] <= dist[x]
             nearest == {c \in S : dist[c] = dist[least]}
         IN  UNION {{<<file_chunks[c]>> \o t : t \in Ascending(S \ {c}, dist)} :
                        c \in nearest}

OrderByKey(S, q) == Ascending(S, [c \in S |-> c])

\* .order_by(FileChunk.embedding_vector.l2_distance(q)) on the rows S.
OrderBy(S, q) ==
    Ascending(S, [c \in S |-> l2_distance(file_chunks[c].embedding_vector, q)])

\* .limit(n)
Limit(rows, n) == SubSeq(rows, 1, Min(n, Len(rows)))

\* get_similar_chunks(file_id, question, db): the results the query may give.
get_similar_chunks(file_id, question) ==
    {Limit(rows, TopK) : rows \in OrderBy(Where(file_id), encode(question))}

QueryIds == 1..MaxUploads

\* The context ask_question puts in its prompt (line 116).
Context(rows) == Join([k \in 1..Len(rows) |-> rows[k].chunk_text])

\* ask_question: retrieval, prompt, generation.  The answer is the generative
\* model's text, which the program does not decide.
AskQuestion(document_id, question) ==
    /\ loads < MaxLoads
    /\ \E rows \in get_similar_chunks(document_id, question) :
           similar' = [document_id |-> document_id, question |-> question,
                       rows |-> rows]
    /\ loads' = loads + 1
    /\ UNCHANGED <<files, file_chunks, sessions, procs>>

\* ask_question, lines 136-138: loading the model or encoding raises before
\* the query is made; HTTP 500.
AskError ==
    /\ similar' = NoQuery
    /\ UNCHANGED <<files, file_chunks, sessions, procs, loads>>

\* find_similar_chunks_endpoint: returns chunk_id and chunk_text of each row.
FindSimilar(file_id, question) ==
    /\ loads < MaxLoads
    /\ \E rows \in get_similar_chunks(file_id, question) :
           similar' = [document_id |-> file_id, question |-> question,
                       rows |-> rows]
    /\ loads' = loads + 1
    /\ UNCHANGED <<files, file_chunks, sessions, procs>>

\* ------------------------------------------------------------ the service
\* Uploads, their detached ingestions and listings: no question is asked.
NextUploads ==
    \/ \E fn \in FileNames : UploadRejected(fn)
    \/ \E fn \in FileNames : UploadError(fn)
    \/ \E fn \in FileNames, text \in Texts : UploadModelError(fn, text)
    \/ \E fn \in FileNames, text \in Texts : UploadFile(fn, text)
    \/ \E p \in ProcIds : Start(p)
    \/ \E p \in ProcIds : EmbedAdd(p)
    \/ \E p \in ProcIds : EncodeFail(p)
    \/ \E p \in ProcIds : Commit(p)
    \/ \E p \in ProcIds : CommitFail(p)
    \/ \E p \in ProcIds : CloseSession(p)
    \/ ListFiles

SpecUploads == Init /\ [][NextUploads]_vars

\* The whole service: every request handler and every background task.
Next ==
    \/ NextUploads
    \/ \E d \in QueryIds, q \in Questions : AskQuestion(d, q)
    \/ AskError
    \/ \E d \in QueryIds, q \in Questions : FindSimilar(d, q)

Spec == Init /\ [][Next]_vars

\* ------------------------------------- a script driving one TextProcessor
\* background_tasks_test.py, lines 4-15: a session, a committed File row and
\* a TextProcessor on it; file_id is that row's id, or one no row has.
TPSetup(chunk_size, dangling) ==
    /\ procs = <<>>
    /\ loads < MaxLoads
    /\ LET new_file == NewFile(<<"sample", "txt">>, <<>>)
           file_id == IF dangling THEN new_file.file_id + 1
                      ELSE new_file.file_id
       IN  /\ files' = Append(files, new_file)
           /\ sessions' = Append(sessions, NewSession(<<"script", 1>>))
           /\ procs' = Append(procs,
                  [NewProcessor(1, file_id, chunk_size)
                       EXCEPT !.doc = new_file.file_id, !.row = new_file])
    /\ loads' = loads + 1
    /\ similar' = NoQuery
    /\ UNCHANGED file_chunks

\* background_tasks_test.py, line 16: processor.chunk_and_embed(text), again
\* once the previous call has returned or raised.
TPCall(p, text) ==
    /\ p \in ProcIds
    /\ procs[p].pc \in {"idle"} \cup Ended
    /\ procs[p].run < MaxRuns
    /\ procs' = [procs EXCEPT ![p] = Call(procs[p], text, <<"script", p>>)]
    /\ similar' = NoQuery
    /\ UNCHANGED <<files, file_chunks, sessions, loads>>

NextTP ==
    \/ \E cs \in ChunkSizes, dangling \in BOOLEAN : TPSetup(cs, dangling)
    \/ \E p \in ProcIds, text \in TPTexts : TPCall(p, text)
    \/ \E p \in ProcIds : Start(p)
    \/ \E p \in ProcIds : EmbedAdd(p)
    \/ \E p \in ProcIds : EncodeFail(p)
    \/ \E p \in ProcIds : Commit(p)
    \/ \E p \in ProcIds : CommitFail(p)

SpecTP == Init /\ [][NextTP]_vars

\* ------------------------------------------------------------ properties
Started(tp) == tp.pc \notin {"idle", "scheduled"}

\* C1: for chunk_size >= 1 and N sentences the chunking gives ceil(N / chunk_size)
\* windows; all but the last hold chunk_size sentences, the last holds the
\* remainder (chunk_size when N is a multiple); window k is exactly the
\* sentences (k-1)*chunk_size+1 .. k*chunk_size, so windows do not overlap and
\* their concatenation is the sentence sequence; each chunk is its window
\* joined by single spaces.
C1_ChunkWindows ==
    \A p \in ProcIds :
        LET tp == procs[p]
            cs == tp.chunk_size
            N == Len(tp.sentences)
            W == tp.windows
            M == Len(W)
        IN  (Started(tp) /\ cs >= 1) =>
                /\ M * cs >= N
                /\ M > 0 => (M - 1) * cs < N
                /\ N = 0 => M = 0
                /\ \A k \in 1..(M - 1) : Len(W[k]) = cs
                /\ M > 0 => Len(W[M]) = (IF N % cs = 0 THEN cs ELSE N % cs)
                /\ \A k \in 1..M :
                       W[k] = [j \in 1..Len(W[k]) |-> tp.sentences[(k - 1) * cs + j]]
                /\ Flatten(W) = tp.sentences
                /\ Len(tp.chunks) = M
                /\ \A k \in 1..M : tp.chunks[k] = Join(W[k])

\* C1 witness: 5 sentences with chunk_size 2 gave 3 chunks of 2, 2 and 1.
C1_Witness ==
    \E p \in ProcIds :
        /\ Started(procs[p])
        /\ procs[p].chunk_size = 2
        /\ Len(procs[p].sentences) = 5
        /\ [k \in 1..Len(procs[p].windows) |-> Len(procs[p].windows[k])]
               = <<2, 2, 1>>
        /\ procs[p].chunks = <<<<1, 0, 2>>, <<3, 0, 4>>, <<5>>>>

\* The rows stored for the batch of call r of processor p.
StoredOf(p, r) == {c \in ChunkIds : file_chunks[c].batch = <<p, r>>}

\* C3: once a call of chunk_and_embed has ended, its batch is stored whole or
\* not at all, whatever is committed later.
C3_BatchAtomic ==
    \A p \in ProcIds :
        \A r \in 1..procs[p].run :
            (r < procs[p].run \/ procs[p].pc \in Ended) =>
                Cardinality(StoredOf(p, r)) \in {0, procs[p].sizes[r]}

\* C6: with chunk_size < 1 a call of chunk_and_embed never returns normally.
C6_RejectsBadChunkSize ==
    \A p \in ProcIds :
        procs[p].chunk_size < 1 => procs[p].pc # "done"

\* The chunk texts a processor's successful calls should have stored, in order.
ExpectedTexts(tp) ==
    Flatten([r \in 1..Len(tp.okTexts) |->
                BuildChunks(sent_tokenize(tp.okTexts[r]), tp.chunk_size)])

\* The rows of the table that processor p stored, in table order.
RowsOf(p) == SelectSeq(file_chunks, LAMBDA c : c.batch[1] = p)

\* C10: ingestion is not idempotent.  While no call of a processor has
\* raised, the table holds, for that processor, the chunks of each of its
\* successful calls, one set after the other and under its file_id: a later
\* call appends its set and leaves the earlier sets as they were, so n calls
\* with the same text leave n copies of that text's chunks.
C10_Appends ==
    \A p \in ProcIds :
        procs[p].nFailed = 0 =>
            /\ [k \in 1..Len(RowsOf(p)) |-> RowsOf(p)[k].chunk_text]
                   = ExpectedTexts(procs[p])
            /\ \A k \in 1..Len(RowsOf(p)) :
                   RowsOf(p)[k].file_id = procs[p].file_id

\* C10 witness: two successful calls with the same text, twice its chunks.
C10_Witness ==
    \E p \in ProcIds :
        LET tp == procs[p]
        IN  /\ tp.nFailed = 0
            /\ tp.pc = "done"
            /\ Len(tp.okTexts) = 2
            /\ tp.okTexts[1] = tp.okTexts[2]
            /\ Len(tp.chunks) > 1
            /\ Len(RowsOf(p)) = 2 * Len(tp.chunks)
            /\ \A k \in 1..Len(tp.chunks) :
                   RowsOf(p)[k].chunk_text = RowsOf(p)[k + Len(tp.chunks)].chunk_text

\* The distance of a returned row to the vector of the question asked.
Distance(row) ==
    l2_distance(row.embedding_vector, encode(similar.question))

\* C2: what get_similar_chunks returns holds at most TopK
\* rows of the table, each once and each of the requested document, in
\* non-decreasing distance to the question's vector, and no row of that
\* document left out is strictly closer than a row returned.
C2_Nearest ==
    similar # NoQuery =>
        LET r == similar.rows
        IN  /\ Len(r) <= TopK
            /\ \A k \in 1..Len(r) :
                   /\ r[k].chunk_id \in ChunkIds
                   /\ r[k] = file_chunks[r[k].chunk_id]
                   /\ r[k].file_id = similar.document_id
            /\ \A j, k \in 1..Len(r) : j < k =>
                   /\ r[j].chunk_id # r[k].chunk_id
                   /\ Distance(r[j]) <= Distance(r[k])
            /\ \A c \in ChunkIds :
                   (/\ file_chunks[c].file_id = similar.document_id
                    /\ \A k \in 1..Len(r) : r[k].chunk_id # c)
                   => \A k \in 1..Len(r) :
                          Distance(r[k]) <= Distance(file_chunks[c])

\* C2 witness: TopK rows returned for a document that holds more, with rows
\* of another document in the table.
C2_Witness ==
    /\ similar # NoQuery
    /\ Len(similar.rows) = TopK
    /\ Cardinality(Where(similar.document_id)) > TopK
    /\ \E c \in ChunkIds : file_chunks[c].file_id # similar.document_id

\* C9: rows returned at the same distance come in insertion (chunk_id) order.
C9_StableTies ==
    similar # NoQuery =>
        \A j, k \in 1..Len(similar.rows) :
            (/\ j < k
             /\ Distance(similar.rows[j]) = Distance(similar.rows[k]))
            => similar.rows[j].chunk_id < similar.rows[k].chunk_id

\* Row carries the id of the File row whose upload scheduled the ingestion
\* that cut it, and its text is one of that ingestion's chunks.
Owned(row) ==
    LET tp == procs[row.batch[1]]
    IN  /\ row.file_id = tp.doc
        /\ row.file_id \in FileIds
        /\ \E k \in 1..Len(tp.chunks) : row.chunk_text = tp.chunks[k]

\* C4: the chunks an ingestion cuts are the chunks of the text of the File row
\* its upload committed, and every row, stored or pending in a session,
\* carries the id of the File row of the ingestion that cut it; so no chunk of
\* one document's text is stored under another document's id.
C4_Ownership ==
    /\ \A p \in ProcIds :
           Started(procs[p]) =>
               procs[p].chunks =
                   BuildChunks(sent_tokenize(files[procs[p].doc].file_content),
                               procs[p].chunk_size)
    /\ \A c \in ChunkIds : Owned(file_chunks[c])
    /\ \A s \in 1..Len(sessions) :
           \A k \in 1..Len(sessions[s].new) : Owned(sessions[s].new[k])

\* C4 witness: two ingestions in flight together; the later upload's chunks
\* are stored while the earlier one still has rows pending.
C4_Witness ==
    \E p, q \in ProcIds :
        /\ p < q
        /\ procs[p].doc # procs[q].doc
        /\ procs[p].pc = "loop"
        /\ Len(sessions[procs[p].db].new) > 0
        /\ procs[q].pc = "done"
        /\ \E c \in ChunkIds : file_chunks[c].batch[1] = q

\* C5: the embedding model is loaded at most once.
C5_SingleLoad == loads <= 1

\* C7: the File row committed for an ingestion is in the table exactly as it
\* was committed, from the moment the ingestion is scheduled and whatever the
\* ingestion's outcome; the text the ingestion works on is that row's text.
C7_DocumentKept ==
    \A p \in ProcIds :
        /\ procs[p].doc \in FileIds
        /\ files[procs[p].doc] = procs[p].row
        /\ procs[p].row.file_id = procs[p].doc
        /\ procs[p].row.file_content = procs[p].text

\* C7 witness: an ingestion has failed; its document is there with no chunk.
C7_Witness ==
    \E p \in ProcIds :
        /\ procs[p].pc = "failed"
        /\ Len(procs[p].chunks) > 0
        /\ procs[p].doc \in FileIds
        /\ files[procs[p].doc] = procs[p].row
        /\ Where(procs[p].doc) = {}

\* C8: a session is used only by the operation that acquired it, and never
\* after it was released.
C8_OwnSession ==
    \A s \in 1..Len(sessions) :
        /\ sessions[s].users \subseteq {sessions[s].owner}
        /\ ~sessions[s].usedClosed

====
